---- MODULE Spec2Model ----
(***************************************************************************)
(* Model of the Gaimin PFP staking client: address derivation (pda.ts),    *)
(* instruction builders (instruction.ts), the transaction pipeline         *)
(* (transaction.ts), the record decoders (parse.ts) and the driver's claim *)
(* batching (index.ts).                                                    *)
(*                                                                         *)
(* Addresses are finite sequences of naturals.  A plain key is <<0, k>>;   *)
(* a program-derived address is <<1>> \o programId \o the length-prefixed  *)
(* seeds, i.e. the hash of findProgramAddressSync is idealised as an       *)
(* injective function of (programId, seeds).                               *)
(***************************************************************************)
EXTENDS Integers, Sequences, FiniteSets, TLC

VARIABLES
    entry,      \* which operation runs: "claim", "concurrentClaim"; for the
                \* codec "decode", "setConfig" or "createClaim"
    mints,      \* the mints argument
    chunkSize,  \* the chunkSize argument of concurrentClaim
    i,          \* loop index of concurrentClaim
    pc,         \* position of the driver operation
    calls,      \* one record per claim() promise, in creation order
    outcome,    \* settlement of the driver operation's promise
    acct,       \* codec: the account returned by connection.getAccountInfo
    wstr,       \* codec: a destination wallet string (sequence of code units)
    cfg,        \* codec: the five config values (args of set-config)
    ix,         \* codec: the instruction built from the inputs, or the throw
    rng,        \* the stream crypto.randomBytes draws from
    res,        \* codec: settlement of the decoder's promise
    fetch,      \* how connection.getAccountInfo settles: "ok" or "error"
    scan,       \* printAllClaimRecords: its inputs, loop variable and queries
    derived     \* the address derivations called so far, with their results

vars ==
    <<entry, mints, chunkSize, i, pc, calls, outcome, rng, acct, wstr, cfg, ix,
      res, fetch, scan, derived>>

pipeVars == <<entry, mints, chunkSize, i, pc, calls, outcome, rng>>
codecVars == <<acct, wstr, cfg, ix, res>>
opsVars == <<fetch, scan, derived>>

(***************************************************************************)
(* Bounds                                                                  *)
(***************************************************************************)
MaxMints == 2
MaxChunkSize == 2
MaxMintsAssemble == 9
MaxChunkSizeAssemble == 4
NumStreams == 2
NumBlockhashes == 2
MaxTime == 5
MaxDuration == 3
MaxDerive == 2
\* iterations of the chunking loop that are followed
MaxLoopIterations == MaxMintsAssemble + 1

(***************************************************************************)
(* Generic helpers                                                         *)
(***************************************************************************)
Min(a, b) == IF a < b THEN a ELSE b
Max(a, b) == IF a > b THEN a ELSE b

RECURSIVE ConcatTo(_, _)
ConcatTo(ss, n) == IF n = 0 THEN <<>> ELSE ConcatTo(ss, n - 1) \o ss[n]
Concat(ss) == ConcatTo(ss, Len(ss))

RECURSIVE SumTo(_, _)
SumTo(s, n) == IF n = 0 THEN 0 ELSE (SumTo(s, n - 1) + s[n]) % 65536
SumSeq(s) == SumTo(s, Len(s))

\* Array.prototype.slice(start, end) / Buffer.slice: negative indices count
\* from the end, both ends are clamped to [0, length].
SliceIndex(k, len) == IF k < 0 THEN Max(len + k, 0) ELSE Min(k, len)
Slice(s, start, end) ==
    LET from == SliceIndex(start, Len(s))
        to   == SliceIndex(end, Len(s))
    IN  IF to > from THEN SubSeq(s, from + 1, to) ELSE <<>>

(***************************************************************************)
(* pid.ts and the well-known keys of @solana/web3.js                       *)
(***************************************************************************)
TOKEN == <<0, 1>>
SPL_ASSOCIATED_TOKEN_ACCOUNT == <<0, 2>>
MPL_TOKEN_METADATA == <<0, 3>>
GAIMIN_PFP == <<0, 4>>
SystemProgramId == <<0, 5>>
SYSVAR_INSTRUCTIONS_PUBKEY == <<0, 6>>
wallet == <<0, 7>>
MintKey(k) == <<0, 10 + k>>

\* Buffer.from('<literal>'): the ASCII bytes of the seed literals
SeedMetadata == <<109, 101, 116, 97, 100, 97, 116, 97>>
SeedEdition == <<101, 100, 105, 116, 105, 111, 110>>
SeedTokenRecord == <<116, 111, 107, 101, 110, 95, 114, 101, 99, 111, 114, 100>>
SeedConfig == <<99, 111, 110, 102, 105, 103>>
SeedNft == <<110, 102, 116>>
SeedClaim == <<99, 108, 97, 105, 109>>

ToBuffer(pubkey) == pubkey

(***************************************************************************)
(* pda.ts: address derivation                                              *)
(***************************************************************************)
RECURSIVE PrefixSeeds(_)
PrefixSeeds(seeds) ==
    IF Len(seeds) = 0 THEN <<>>
    ELSE <<Len(Head(seeds))>> \o Head(seeds) \o PrefixSeeds(Tail(seeds))

\* PublicKey.findProgramAddressSync: [address, bump], a deterministic
\* function of the ordered seeds and the program id.
FindProgramAddressSync(seeds, programId) ==
    LET address == <<1>> \o programId \o PrefixSeeds(seeds)
    IN  <<address, 255 - (SumSeq(address) % 4)>>

findMetadataAccountPda(mint) ==
    FindProgramAddressSync(
        <<SeedMetadata, ToBuffer(MPL_TOKEN_METADATA), ToBuffer(mint)>>,
        MPL_TOKEN_METADATA)

findMasterEditionAccountPda(mint) ==
    FindProgramAddressSync(
        <<SeedMetadata, ToBuffer(MPL_TOKEN_METADATA), ToBuffer(mint), SeedEdition>>,
        MPL_TOKEN_METADATA)

findTokenAccountPda(mint, w) ==
    FindProgramAddressSync(
        <<ToBuffer(w), ToBuffer(TOKEN), ToBuffer(mint)>>,
        SPL_ASSOCIATED_TOKEN_ACCOUNT)

findTokenRecordPda(mint, token) ==
    FindProgramAddressSync(
        <<SeedMetadata, ToBuffer(MPL_TOKEN_METADATA), ToBuffer(mint),
          SeedTokenRecord, ToBuffer(token)>>,
        MPL_TOKEN_METADATA)

findConfigPda == FindProgramAddressSync(<<SeedConfig>>, GAIMIN_PFP)

findNftPda(mint) ==
    FindProgramAddressSync(<<SeedNft, ToBuffer(mint)>>, GAIMIN_PFP)

\* a claim derivation that also feeds the number of earlier derivations in
findClaimPdaCounting(w, seed) ==
    FindProgramAddressSync(
        <<SeedClaim, ToBuffer(w), seed, <<Len(derived)>>>>, GAIMIN_PFP)

findClaimPda(w, seed) ==
    FindProgramAddressSync(<<SeedClaim, ToBuffer(w), seed>>, GAIMIN_PFP)

(***************************************************************************)
(* Strings are sequences of code points; TextEncoder.encode and            *)
(* Buffer.toString('utf8') are UTF-8 encoding and decoding.                *)
(***************************************************************************)
Utf8EncodeChar(c) ==
    IF c < 128 THEN <<c>>
    ELSE IF c < 2048 THEN <<192 + (c \div 64), 128 + (c % 64)>>
    ELSE <<224 + (c \div 4096), 128 + ((c \div 64) % 64), 128 + (c % 64)>>

RECURSIVE Utf8Encode(_)
Utf8Encode(str) ==
    IF Len(str) = 0 THEN <<>> ELSE Utf8EncodeChar(Head(str)) \o Utf8Encode(Tail(str))

IsCont(b) == b >= 128 /\ b < 192
ReplacementChar == 65533

\* Decoding of well-formed 1-, 2- and 3-byte sequences; any other byte
\* decodes to U+FFFD.
RECURSIVE Utf8Decode(_)
Utf8Decode(bytes) ==
    IF Len(bytes) = 0 THEN <<>>
    ELSE LET b0 == bytes[1]
             n  == Len(bytes)
         IN  IF b0 < 128 THEN <<b0>> \o Utf8Decode(Tail(bytes))
             ELSE IF b0 >= 194 /\ b0 < 224 /\ n >= 2 /\ IsCont(bytes[2])
                  THEN <<(b0 - 192) * 64 + (bytes[2] - 128)>>
                       \o Utf8Decode(SubSeq(bytes, 3, n))
             ELSE IF b0 >= 224 /\ b0 < 240 /\ n >= 3 /\ IsCont(bytes[2])
                     /\ IsCont(bytes[3])
                     /\ (b0 - 224) * 4096 + (bytes[2] - 128) * 64 >= 2048
                  THEN <<(b0 - 224) * 4096 + (bytes[2] - 128) * 64
                         + (bytes[3] - 128)>>
                       \o Utf8Decode(SubSeq(bytes, 4, n))
             ELSE <<ReplacementChar>> \o Utf8Decode(Tail(bytes))

(***************************************************************************)
(* instruction.ts: opcodes and the builders of the claim transaction       *)
(***************************************************************************)
IX_CONFIG == 0
IX_DELETE == 1
IX_NFT == 2
IX_CREATE_CLAIM == 3
IX_CLAIM == 4

Key(pubkey, isSigner, isWritable) ==
    [pubkey |-> pubkey, isSigner |-> isSigner, isWritable |-> isWritable]

TransactionInstruction(data, keys, programId) ==
    [data |-> data, keys |-> keys, programId |-> programId]

registerNftInstruction(signer, mint) ==
    TransactionInstruction(
        <<IX_NFT>>,
        << Key(signer, TRUE, FALSE),
           Key(mint, FALSE, FALSE),
           Key(findMetadataAccountPda(mint)[1], FALSE, FALSE),
           Key(findMasterEditionAccountPda(mint)[1], FALSE, FALSE),
           Key(findNftPda(mint)[1], FALSE, TRUE),
           Key(findConfigPda[1], FALSE, FALSE),
           Key(SystemProgramId, FALSE, FALSE) >>,
        GAIMIN_PFP)

\* bnbWallet.slice(2): the first two code units are dropped, whatever they are
StripWalletMarker(bnbWallet) == Slice(bnbWallet, 2, Len(bnbWallet))

createClaimInstruction(w, bnbWallet, claim_seed) ==
    LET pda == findClaimPda(w, claim_seed)
        claim == pda[1]
        bump == pda[2]
    IN  TransactionInstruction(
            <<IX_CREATE_CLAIM, bump>> \o claim_seed
                \o Utf8Encode(StripWalletMarker(bnbWallet)),
            << Key(w, TRUE, FALSE),
               Key(claim, FALSE, TRUE),
               Key(findConfigPda[1], FALSE, FALSE),
               Key(SystemProgramId, FALSE, FALSE) >>,
            GAIMIN_PFP)

\* an execute-claim builder that writes the stake-record bump first and the
\* token bump last
claimInstructionBumpsSwapped(w, mint, claim_seed) ==
    LET nft == findNftPda(mint)
        tok == findTokenAccountPda(mint, w)
        config == findConfigPda[1]
        tokrec == findTokenRecordPda(mint, tok[1])
        claim == findClaimPda(w, claim_seed)[1]
    IN  TransactionInstruction(
            <<IX_CLAIM, nft[2], tokrec[2], tok[2]>>,
            << Key(w, TRUE, FALSE),
               Key(tok[1], FALSE, FALSE),
               Key(tokrec[1], FALSE, FALSE),
               Key(nft[1], FALSE, TRUE),
               Key(claim, FALSE, TRUE),
               Key(config, FALSE, FALSE) >>,
            GAIMIN_PFP)

claimInstruction(w, mint, claim_seed) ==
    LET nft == findNftPda(mint)
        tok == findTokenAccountPda(mint, w)
        config == findConfigPda[1]
        tokrec == findTokenRecordPda(mint, tok[1])
        claim == findClaimPda(w, claim_seed)[1]
    IN  TransactionInstruction(
            <<IX_CLAIM, tok[2], tokrec[2], nft[2]>>,
            << Key(w, TRUE, FALSE),
               Key(tok[1], FALSE, FALSE),
               Key(tokrec[1], FALSE, FALSE),
               Key(nft[1], FALSE, TRUE),
               Key(claim, FALSE, TRUE),
               Key(config, FALSE, FALSE) >>,
            GAIMIN_PFP)

(***************************************************************************)
(* instruction.ts: delete-account and the instructions of the external     *)
(* token-metadata program                                                  *)
(***************************************************************************)
MPL_DELEGATE == 44
MPL_REVOKE == 45
MPL_LOCK == 46
MPL_UNLOCK == 47
MPL_DELEGATE_STAKING == 5

\* the account standing for an omitted optional account
MPL_EMPTY_ACCOUNT == Key(MPL_TOKEN_METADATA, FALSE, FALSE)

deleteAccountInstruction(signer, acc) ==
    TransactionInstruction(
        <<IX_DELETE>>,
        << Key(signer, TRUE, FALSE),
           Key(acc, FALSE, TRUE),
           Key(signer, FALSE, TRUE),
           Key(findConfigPda[1], FALSE, FALSE) >>,
        GAIMIN_PFP)

\* writeBigInt64LE(1n, 2): the amount 1 in eight little-endian bytes
BigInt64One == <<1, 0, 0, 0, 0, 0, 0, 0>>

\* the accounts shared by delegate-approve and delegate-revoke
DelegateKeys(mint, w, payer, delegate) ==
    LET token_acc == findTokenAccountPda(mint, w)[1]
        metadata_acc == findMetadataAccountPda(mint)[1]
        master_edition_acc == findMasterEditionAccountPda(mint)[1]
        token_rec == findTokenRecordPda(mint, token_acc)[1]
    IN  << MPL_EMPTY_ACCOUNT,
           Key(delegate, FALSE, FALSE),
           Key(metadata_acc, FALSE, TRUE),
           Key(master_edition_acc, FALSE, FALSE),
           Key(token_rec, FALSE, TRUE),
           Key(mint, FALSE, FALSE),
           Key(token_acc, FALSE, TRUE),
           Key(w, TRUE, FALSE),
           Key(payer, TRUE, FALSE),
           Key(SystemProgramId, FALSE, FALSE),
           Key(SYSVAR_INSTRUCTIONS_PUBKEY, FALSE, FALSE),
           Key(TOKEN, FALSE, FALSE),
           MPL_EMPTY_ACCOUNT,
           MPL_EMPTY_ACCOUNT >>

\* the accounts shared by lock and unlock
LockKeys(mint, w, payer, delegate) ==
    LET token_acc == findTokenAccountPda(mint, w)[1]
        metadata_acc == findMetadataAccountPda(mint)[1]
        master_edition_acc == findMasterEditionAccountPda(mint)[1]
        token_rec == findTokenRecordPda(mint, token_acc)[1]
    IN  << Key(delegate, TRUE, FALSE),
           MPL_EMPTY_ACCOUNT,
           Key(token_acc, FALSE, TRUE),
           Key(mint, FALSE, FALSE),
           Key(metadata_acc, FALSE, TRUE),
           Key(master_edition_acc, FALSE, FALSE),
           Key(token_rec, FALSE, TRUE),
           Key(payer, TRUE, TRUE),
           Key(SystemProgramId, FALSE, FALSE),
           Key(SYSVAR_INSTRUCTIONS_PUBKEY, FALSE, FALSE),
           Key(TOKEN, FALSE, FALSE),
           MPL_EMPTY_ACCOUNT,
           MPL_EMPTY_ACCOUNT >>

delegateApproveInstruction(mint, w, payer, delegate) ==
    TransactionInstruction(
        <<MPL_DELEGATE, MPL_DELEGATE_STAKING>> \o BigInt64One \o <<0>>,
        DelegateKeys(mint, w, payer, delegate),
        MPL_TOKEN_METADATA)

delegateRevokeInstruction(mint, w, payer, delegate) ==
    TransactionInstruction(
        <<MPL_REVOKE, MPL_DELEGATE_STAKING>>,
        DelegateKeys(mint, w, payer, delegate),
        MPL_TOKEN_METADATA)

\* a lock builder that writes the unlock opcode
lockInstructionUnlockOpcode(mint, w, payer, delegate) ==
    TransactionInstruction(
        <<MPL_UNLOCK, 0, 0>>,
        LockKeys(mint, w, payer, delegate),
        MPL_TOKEN_METADATA)

lockInstruction(mint, w, payer, delegate) ==
    TransactionInstruction(
        <<MPL_LOCK, 0, 0>>,
        LockKeys(mint, w, payer, delegate),
        MPL_TOKEN_METADATA)

\* an unlock builder that passes the wallet as the token owner instead of
\* omitting that account
unlockInstructionWithOwner(mint, w, payer, delegate) ==
    TransactionInstruction(
        <<MPL_UNLOCK, 0, 0>>,
        [LockKeys(mint, w, payer, delegate) EXCEPT ![2] = Key(w, FALSE, FALSE)],
        MPL_TOKEN_METADATA)

unlockInstruction(mint, w, payer, delegate) ==
    TransactionInstruction(
        <<MPL_UNLOCK, 0, 0>>,
        LockKeys(mint, w, payer, delegate),
        MPL_TOKEN_METADATA)

(***************************************************************************)
(* transaction.ts: claimReward and sendAndConfirmTransaction               *)
(***************************************************************************)
NONCE_LEN == 32

\* crypto.randomBytes(NONCE_LEN): the k-th draw of stream r
RandomBytes(r, k) == [j \in 1..NONCE_LEN |-> (r * 97 + k * 31 + j) % 256]

\* a claimReward that draws a second nonce for the execute-claim instructions
ClaimRewardInstructionsSecondNonce(userPayer, ms, bnb, claim_seed) ==
    LET other == [j \in 1..Len(claim_seed) |-> (claim_seed[j] + 1) % 256]
    IN  <<createClaimInstruction(userPayer, bnb, claim_seed)>>
        \o [k \in 1..Len(ms) |-> registerNftInstruction(userPayer, ms[k])]
        \o [k \in 1..Len(ms) |-> claimInstruction(userPayer, ms[k], other)]

\* the instructions array of claimReward, with the one claim_seed of the call
ClaimRewardInstructions(userPayer, ms, bnb, claim_seed) ==
    <<createClaimInstruction(userPayer, bnb, claim_seed)>>
    \o [k \in 1..Len(ms) |-> registerNftInstruction(userPayer, ms[k])]
    \o [k \in 1..Len(ms) |-> claimInstruction(userPayer, ms[k], claim_seed)]

NoBlockhash == [blockhash |-> 0, lastValidBlockHeight |-> 0]
NoTx == [recentBlockhash |-> 0, payerKey |-> <<>>, signers |-> <<>>]
NoSignature == <<>>
NoConfirm == [signature |-> <<>>, blockhash |-> 0, lastValidBlockHeight |-> 0]

\* the block reference returned by connection.getLatestBlockhash
Blockhash(b) == [blockhash |-> b, lastValidBlockHeight |-> b + 150]

\* the signature connection.sendTransaction returns: the transaction's first
\* signature, a function of the signed message
SignatureOf(tx, instructions) ==
    <<tx.recentBlockhash, SumSeq(tx.payerKey),
      SumSeq([k \in 1..Len(instructions) |-> SumSeq(instructions[k].data)])>>

\* sendAndConfirmTransaction up to its first await: getLatestBlockhash is
\* requested and the call suspends.
SendAndConfirmStart(signers, payerKey, instructions) ==
    [ signers |-> signers, payerKey |-> payerKey,
      instructions |-> instructions,
      step |-> "getLatestBlockhash",
      blockhash |-> NoBlockhash, tx |-> NoTx, signature |-> NoSignature,
      confirm |-> NoConfirm, err |-> "none", failedAt |-> "none",
      log |-> <<"getLatestBlockhash">> ]

\* claimReward: one nonce, then the instruction list handed to
\* sendAndConfirmTransaction
ClaimReward(userPayer, ms, bnb, claim_seed) ==
    SendAndConfirmStart(<<userPayer>>, userPayer,
                        ClaimRewardInstructions(userPayer, ms, bnb, claim_seed))

\* index.ts: const bnbWallet = '0xC3Fc58A10056fDF37b0AAAE295Ef3C42609988B8'
bnbWallet ==
    << 48, 120, 67, 51, 70, 99, 53, 56, 65, 49, 48, 48, 53, 54,
       102, 68, 70, 51, 55, 98, 48, 65, 65, 65, 69, 50, 57, 53, 69,
       102, 51, 67, 52, 50, 54, 48, 57, 57, 56, 56, 66, 56 >>

\* index.ts claim(mints): the promise of tx.claimReward for this chunk
Claim(ms, claim_seed) ==
    [chunk |-> ms, seed |-> claim_seed] @@ ClaimReward(wallet, ms, bnbWallet, claim_seed)

\* sendAndConfirmTransaction resumed with the block reference: the message
\* is compiled with it, signed, serialized and handed to sendTransaction.
AfterBlockhash(c, bh) ==
    [c EXCEPT !.blockhash = bh,
              !.tx = [recentBlockhash |-> bh.blockhash,
                      payerKey |-> c.payerKey, signers |-> c.signers],
              !.step = "sendTransaction",
              !.log = @ \o <<"compile", "sign", "serialize", "sendTransaction">>]

\* compileToV0Message / sign / serialize throws (e.g. transaction too large)
AfterBuildThrows(c, bh) ==
    [c EXCEPT !.blockhash = bh,
              !.step = "rejected", !.failedAt = "build",
              !.log = @ \o <<"compile">>]

\* a pipeline that confirms against a block reference fetched anew
AfterSendOtherToken(c) ==
    LET sig == SignatureOf(c.tx, c.instructions)
    IN  [c EXCEPT !.signature = sig,
                  !.confirm = [signature |-> sig,
                               blockhash |-> c.blockhash.blockhash + 1,
                               lastValidBlockHeight |->
                                   c.blockhash.lastValidBlockHeight + 1],
                  !.step = "confirmTransaction",
                  !.log = @ \o <<"confirmTransaction">>]

\* resumed with the signature: confirmTransaction({signature, ...blockhash})
AfterSend(c) ==
    LET sig == SignatureOf(c.tx, c.instructions)
    IN  [c EXCEPT !.signature = sig,
                  !.confirm = [signature |-> sig,
                               blockhash |-> c.blockhash.blockhash,
                               lastValidBlockHeight |->
                                   c.blockhash.lastValidBlockHeight],
                  !.step = "confirmTransaction",
                  !.log = @ \o <<"confirmTransaction">>]

\* confirmTransaction resolved; its value.err is returned to the caller as is
AfterConfirm(c, err) == [c EXCEPT !.step = "resolved", !.err = err]

\* an awaited request rejected: the async function rejects at that await
AfterReject(c, at) == [c EXCEPT !.step = "rejected", !.failedAt = at]

(***************************************************************************)
(* index.ts: claim and concurrentClaim                                     *)
(***************************************************************************)
\* claim(mints) awaits tx.claimReward and drops its result
ClaimPromise(c) ==
    IF c.step = "resolved" THEN "resolved"
    ELSE IF c.step = "rejected" THEN "rejected"
    ELSE "pending"

\* Promise.all(promises) as seen by the awaiting driver; for claim() the
\* single promise itself
PromiseAll(cs, prev) ==
    IF prev # "pending" THEN prev
    ELSE IF \E k \in 1..Len(cs) : ClaimPromise(cs[k]) = "rejected" THEN "rejected"
    ELSE IF \A k \in 1..Len(cs) : ClaimPromise(cs[k]) = "resolved" THEN "resolved"
    ELSE "pending"

\* a chunking that drops the last mint of every chunk
ChunkShort(ms, idx, size) == Slice(ms, idx, idx + size - 1)

\* the chunk of one loop iteration
Chunk(ms, idx, size) == Slice(ms, idx, idx + size)

(***************************************************************************)
(* Numbers and buffers.  A JavaScript integer v is kept as the pair        *)
(* [hi, lo] with v = hi * 65536 + lo and 0 <= lo < 65536, so that values   *)
(* up to and beyond 2^32 stay within the checker's integers.               *)
(***************************************************************************)
Num(n) == [hi |-> n \div 65536, lo |-> n % 65536]

\* the range Buffer.writeInt32LE accepts: -2^31 .. 2^31 - 1
InInt32Range(v) == v.hi >= -32768 /\ v.hi <= 32767

\* the four little-endian bytes of a value's low 32 bits
Int32Bytes(v) ==
    LET h == v.hi % 65536
    IN  <<v.lo % 256, v.lo \div 256, h % 256, h \div 256>>

\* buf.readInt32LE(offset) / buf.readInt8(offset) throw ERR_OUT_OF_RANGE
\* unless offset + width <= buf.length (one byte too lenient in the variant)
CanReadLenient(buf, offset, width) == offset >= 0 /\ offset + width <= Len(buf) + 1

CanRead(buf, offset, width) == offset >= 0 /\ offset + width <= Len(buf)

ByteAt(buf, offset) == IF offset < Len(buf) THEN buf[offset + 1] ELSE 0

\* buf.readInt32LE(offset): signed
ReadInt32LE(buf, offset) ==
    LET h == ByteAt(buf, offset + 2) + 256 * ByteAt(buf, offset + 3)
    IN  [hi |-> IF h >= 32768 THEN h - 65536 ELSE h,
         lo |-> ByteAt(buf, offset) + 256 * ByteAt(buf, offset + 1)]

\* buf.readInt8(offset): signed
ReadInt8(buf, offset) ==
    LET b == ByteAt(buf, offset)
    IN  IF b >= 128 THEN b - 256 ELSE b

\* bs58.encode(bytes): the base-58 string, kept as the bytes it spells
Bs58Encode(bytes) == [bs58 |-> bytes]

\* new PublicKey(string) throws "Invalid public key input" unless the
\* string decodes to exactly 32 bytes
PUBLIC_KEY_LENGTH == 32
IsPublicKeyInput(str) == Len(str.bs58) = PUBLIC_KEY_LENGTH
PublicKey(str) == [key |-> str.bs58]

(***************************************************************************)
(* instruction.ts: setConfigInstruction                                    *)
(***************************************************************************)
\* the symbolic key as the 32 bytes stored in an account
KeyBytes(pubkey) == [j \in 1..PUBLIC_KEY_LENGTH |-> (SumSeq(pubkey) * 7 + j) % 256]

Thrown(what) == [status |-> "throws", error |-> what]
Built(instruction) == [status |-> "built", instruction |-> instruction]

\* config = <<claimable_from, accumulated_reward, initial_reward,
\*            total_accumulation_period, generation_duration>>
setConfigInstruction(signer, creator, config) ==
    IF \E f \in 1..5 : ~InInt32Range(config[f])
    THEN Thrown("ERR_OUT_OF_RANGE")
    ELSE Built(TransactionInstruction(
            <<IX_CONFIG>> \o Int32Bytes(config[1]) \o Int32Bytes(config[2])
                \o Int32Bytes(config[3]) \o Int32Bytes(config[4])
                \o Int32Bytes(config[5]),
            << Key(signer, TRUE, FALSE),
               Key(creator, FALSE, FALSE),
               Key(findConfigPda[1], FALSE, TRUE),
               Key(SystemProgramId, FALSE, FALSE) >>,
            GAIMIN_PFP))

(***************************************************************************)
(* parse.ts: the record decoders.  Each returns the settlement of the      *)
(* promise: rejected when getAccountInfo yields null or the callback       *)
(* throws, otherwise resolved with the record.                             *)
(***************************************************************************)
Rejected(kind, why) == [status |-> "rejected", kind |-> kind, error |-> why]
Resolved(kind, rec) == [status |-> "resolved", kind |-> kind, rec |-> rec]

NullDelegate == [isNull |-> TRUE, str |-> Bs58Encode(<<>>)]
NullRole == [isNull |-> TRUE, value |-> 0]

\* a decoder that reads the role from the byte right after the delegate
parseTokenRecordAdjacentRole(account) ==
    IF ~account.exists THEN Rejected("tokenRecord", "Uninitialized account")
    ELSE LET data == account.data
             p == IF ReadInt8(data, 3) = 0 THEN 4 ELSE 12
         IN  IF ~CanRead(data, 2, 1) \/ ~CanRead(data, 3, 1) \/ ~CanRead(data, p, 1)
             THEN Rejected("tokenRecord", "ERR_OUT_OF_RANGE")
             ELSE IF ReadInt8(data, p) = 0
             THEN Resolved("tokenRecord",
                     [state |-> ReadInt8(data, 2), delegate |-> NullDelegate,
                      delegateRole |-> NullRole])
             ELSE IF ~CanRead(data, p + 34, 1)
             THEN Rejected("tokenRecord", "ERR_OUT_OF_RANGE")
             ELSE Resolved("tokenRecord",
                     [state |-> ReadInt8(data, 2),
                      delegate |-> [isNull |-> FALSE,
                                    str |-> Bs58Encode(Slice(data, p + 1, p + 33))],
                      delegateRole |-> [isNull |-> FALSE,
                                        value |-> ReadInt8(data, p + 33)]])

parseTokenRecord(account) ==
    IF ~account.exists THEN Rejected("tokenRecord", "Uninitialized account")
    ELSE LET data == account.data
             p == IF ReadInt8(data, 3) = 0 THEN 4 ELSE 12
         IN  IF ~CanRead(data, 2, 1) \/ ~CanRead(data, 3, 1) \/ ~CanRead(data, p, 1)
             THEN Rejected("tokenRecord", "ERR_OUT_OF_RANGE")
             ELSE IF ReadInt8(data, p) = 0
             THEN Resolved("tokenRecord",
                     [state |-> ReadInt8(data, 2), delegate |-> NullDelegate,
                      delegateRole |-> NullRole])
             ELSE IF ~CanRead(data, p + 34, 1)
             THEN Rejected("tokenRecord", "ERR_OUT_OF_RANGE")
             ELSE Resolved("tokenRecord",
                     [state |-> ReadInt8(data, 2),
                      delegate |-> [isNull |-> FALSE,
                                    str |-> Bs58Encode(Slice(data, p + 1, p + 33))],
                      delegateRole |-> [isNull |-> FALSE,
                                        value |-> ReadInt8(data, p + 34)]])

\* a decoder with claimable_from and accumulated_reward offsets exchanged
parseConfigSwapped(account) ==
    IF ~account.exists THEN Rejected("config", "Uninitialized account")
    ELSE LET data == account.data
             authority == Bs58Encode(Slice(data, 0, 32))
             creator == Bs58Encode(Slice(data, 32, 64))
         IN  IF ~IsPublicKeyInput(authority) \/ ~IsPublicKeyInput(creator)
             THEN Rejected("config", "Invalid public key input")
             ELSE IF \E off \in {64, 68, 72, 76, 80} : ~CanRead(data, off, 4)
             THEN Rejected("config", "ERR_OUT_OF_RANGE")
             ELSE Resolved("config",
                     [authority |-> PublicKey(authority),
                      creator |-> PublicKey(creator),
                      claimable_from |-> ReadInt32LE(data, 68),
                      accumulated_reward |-> ReadInt32LE(data, 64),
                      initial_reward |-> ReadInt32LE(data, 72),
                      accumulation_duration |-> ReadInt32LE(data, 76),
                      generation_duration |-> ReadInt32LE(data, 80)])

parseConfig(account) ==
    IF ~account.exists THEN Rejected("config", "Uninitialized account")
    ELSE LET data == account.data
             authority == Bs58Encode(Slice(data, 0, 32))
             creator == Bs58Encode(Slice(data, 32, 64))
         IN  IF ~IsPublicKeyInput(authority) \/ ~IsPublicKeyInput(creator)
             THEN Rejected("config", "Invalid public key input")
             ELSE IF \E off \in {64, 68, 72, 76, 80} : ~CanRead(data, off, 4)
             THEN Rejected("config", "ERR_OUT_OF_RANGE")
             ELSE Resolved("config",
                     [authority |-> PublicKey(authority),
                      creator |-> PublicKey(creator),
                      claimable_from |-> ReadInt32LE(data, 64),
                      accumulated_reward |-> ReadInt32LE(data, 68),
                      initial_reward |-> ReadInt32LE(data, 72),
                      accumulation_duration |-> ReadInt32LE(data, 76),
                      generation_duration |-> ReadInt32LE(data, 80)])

parseNft(account) ==
    IF ~account.exists THEN Rejected("nft", "Uninitialized account")
    ELSE LET data == account.data
         IN  IF \E off \in {0, 4, 8} : ~CanRead(data, off, 4)
             THEN Rejected("nft", "ERR_OUT_OF_RANGE")
             ELSE Resolved("nft",
                     [claimed_amount |-> ReadInt32LE(data, 0),
                      total_amount |-> ReadInt32LE(data, 4),
                      last_claimed_at |-> ReadInt32LE(data, 8)])

parseClaim(account) ==
    IF ~account.exists THEN Rejected("claim", "Uninitialized account")
    ELSE LET data == account.data
             owner == Bs58Encode(Slice(data, 8, 40))
         IN  IF \E off \in {0, 4} : ~CanRead(data, off, 4)
             THEN Rejected("claim", "ERR_OUT_OF_RANGE")
             ELSE IF ~IsPublicKeyInput(owner)
             THEN Rejected("claim", "Invalid public key input")
             ELSE Resolved("claim",
                     [generation |-> ReadInt32LE(data, 0),
                      amount |-> ReadInt32LE(data, 4),
                      owner |-> PublicKey(owner),
                      bnb_chain_wallet_address |->
                          <<48, 120>> \o Utf8Decode(Slice(data, 40, Len(data)))])

NoAccount == [exists |-> FALSE, data |-> <<>>]
Account(data) == [exists |-> TRUE, data |-> data]
NoResult == [status |-> "none"]
NoIx == [status |-> "none"]
NoCfg == [f \in 1..5 |-> Num(0)]
NoScan == [since |-> 0, now |-> 0, d |-> 1, k |-> 0, queries |-> <<>>]

OpsIdle ==
    /\ fetch = "none"
    /\ scan = NoScan
    /\ derived = <<>>

CodecIdle ==
    /\ acct = NoAccount
    /\ wstr = <<>>
    /\ cfg = NoCfg
    /\ ix = NoIx
    /\ res = NoResult

InitPipe(maxMints, maxChunk) ==
    /\ entry \in {"claim", "concurrentClaim"}
    /\ \E m \in 0..maxMints : mints = [k \in 1..m |-> MintKey(k)]
    /\ chunkSize \in 1..maxChunk
    /\ entry = "claim" => chunkSize = 1
    /\ i = 0
    /\ pc = IF entry = "claim" THEN "call" ELSE "loop"
    /\ calls = <<>>
    /\ outcome = "pending"
    /\ rng \in 1..NumStreams
    /\ CodecIdle
    /\ OpsIdle

\* claim(mints) called directly
StartClaim ==
    /\ entry = "claim"
    /\ pc = "call"
    /\ calls' = <<Claim(mints, RandomBytes(rng, 1))>>
    /\ pc' = "await"
    /\ UNCHANGED <<entry, mints, chunkSize, i, outcome, rng>>
    /\ UNCHANGED <<codecVars, opsVars>>

\* one iteration of the for loop of concurrentClaim
LoopStep ==
    /\ entry = "concurrentClaim"
    /\ pc = "loop"
    /\ i < Len(mints)
    /\ Len(calls) < MaxLoopIterations
    /\ calls' = Append(calls,
                       Claim(Chunk(mints, i, chunkSize),
                             RandomBytes(rng, Len(calls) + 1)))
    /\ i' = i + chunkSize
    /\ UNCHANGED <<entry, mints, chunkSize, pc, outcome, rng>>
    /\ UNCHANGED <<codecVars, opsVars>>

\* the loop condition fails: await Promise.all(promises)
LoopExit ==
    /\ entry = "concurrentClaim"
    /\ pc = "loop"
    /\ ~(i < Len(mints))
    /\ pc' = "await"
    /\ outcome' = PromiseAll(calls, outcome)
    /\ UNCHANGED <<entry, mints, chunkSize, i, calls, rng>>
    /\ UNCHANGED <<codecVars, opsVars>>

\* a network response resumes call k; the settlement of its promise is
\* propagated to the awaiting driver in the same turn
Resume(k, c) ==
    /\ calls' = [calls EXCEPT ![k] = c]
    /\ outcome' = PromiseAll(calls', outcome)
    /\ UNCHANGED <<entry, mints, chunkSize, i, pc, rng>>
    /\ UNCHANGED <<codecVars, opsVars>>

BlockhashOk ==
    \E k \in 1..Len(calls) : \E b \in 1..NumBlockhashes :
        /\ pc = "await"
        /\ calls[k].step = "getLatestBlockhash"
        /\ Resume(k, AfterBlockhash(calls[k], Blockhash(b)))

BuildThrows ==
    \E k \in 1..Len(calls) : \E b \in 1..NumBlockhashes :
        /\ pc = "await"
        /\ calls[k].step = "getLatestBlockhash"
        /\ Resume(k, AfterBuildThrows(calls[k], Blockhash(b)))

BlockhashFails ==
    \E k \in 1..Len(calls) :
        /\ pc = "await"
        /\ calls[k].step = "getLatestBlockhash"
        /\ Resume(k, AfterReject(calls[k], "getLatestBlockhash"))

SendOk ==
    \E k \in 1..Len(calls) :
        /\ pc = "await"
        /\ calls[k].step = "sendTransaction"
        /\ Resume(k, AfterSend(calls[k]))

SendFails ==
    \E k \in 1..Len(calls) :
        /\ pc = "await"
        /\ calls[k].step = "sendTransaction"
        /\ Resume(k, AfterReject(calls[k], "sendTransaction"))

\* confirmTransaction resolves with value.err null or with the error the
\* transaction failed with
ConfirmOk ==
    \E k \in 1..Len(calls) : \E err \in {"null", "InstructionError"} :
        /\ pc = "await"
        /\ calls[k].step = "confirmTransaction"
        /\ Resume(k, AfterConfirm(calls[k], err))

\* confirmTransaction rejects (block height exceeded, timeout)
ConfirmFails ==
    \E k \in 1..Len(calls) :
        /\ pc = "await"
        /\ calls[k].step = "confirmTransaction"
        /\ Resume(k, AfterReject(calls[k], "confirmTransaction"))

Network ==
    \/ BlockhashOk
    \/ BuildThrows
    \/ BlockhashFails
    \/ SendOk
    \/ SendFails
    \/ ConfirmOk
    \/ ConfirmFails

Init == InitPipe(MaxMints, MaxChunkSize)

Next ==
    \/ StartClaim
    \/ LoopStep
    \/ LoopExit
    \/ Network

Spec == Init /\ [][Next]_vars

\* the synchronous assembly alone, on longer lists
InitAssemble == InitPipe(MaxMintsAssemble, MaxChunkSizeAssemble)

NextAssemble ==
    \/ StartClaim
    \/ LoopStep
    \/ LoopExit

SpecAssemble == InitAssemble /\ [][NextAssemble]_vars

(***************************************************************************)
(* The account bytes the decoders are applied to.  The on-chain program    *)
(* is not part of the client; its records follow the documented layouts.   *)
(***************************************************************************)
MaxPad == 2

ConfigRecordData(authority, creator, vals) ==
    authority \o creator \o Int32Bytes(vals[1]) \o Int32Bytes(vals[2])
        \o Int32Bytes(vals[3]) \o Int32Bytes(vals[4]) \o Int32Bytes(vals[5])

NftRecordData(vals) ==
    Int32Bytes(vals[1]) \o Int32Bytes(vals[2]) \o Int32Bytes(vals[3])

ClaimRecordData(generation, amount, owner, walletBytes) ==
    Int32Bytes(generation) \o Int32Bytes(amount) \o owner \o walletBytes

\* key, bump, state, Option<rule set revision>, Option<delegate>,
\* Option<delegate role>, Option<locked transfer>
TokenRecordData(state, hasRevision, hasDelegate, delegate, role) ==
    <<11, 254, state>>
        \o (IF hasRevision THEN <<1, 7, 0, 0, 0, 0, 0, 0, 0>> ELSE <<0>>)
        \o (IF hasDelegate THEN <<1>> \o delegate \o <<1, role>> ELSE <<0, 0>>)
        \o <<0>>

\* set-config as applied by the program: authority, creator and the five
\* payload values at offsets 64..83 of the config account
OnChainSetConfig(instruction) ==
    KeyBytes(instruction.keys[1].pubkey) \o KeyBytes(instruction.keys[2].pubkey)
        \o SubSeq(instruction.data, 2, 21)

ClaimGeneration == Num(475401)
ClaimAmount == Num(820700)

\* create-claim as applied by the program: the wallet characters of the
\* payload are stored from offset 40 of the claim account
OnChainCreateClaim(instruction) ==
    ClaimRecordData(ClaimGeneration, ClaimAmount,
                    KeyBytes(instruction.keys[1].pubkey),
                    SubSeq(instruction.data, 3 + NONCE_LEN, Len(instruction.data)))

Key32(a) == [j \in 1..PUBLIC_KEY_LENGTH |-> (a * 17 + j) % 256]
creatorKey == <<0, 8>>

\* every prefix of a record, and the record followed by padding
Cuts(data) ==
    {Slice(data, 0, n) : n \in 0..Len(data)}
        \cup {data \o [j \in 1..pad |-> 0] : pad \in 1..MaxPad}

ScenarioConfig ==
    <<Num(1711447200), Num(3282800), Num(820700), Num(25920000), Num(3600)>>

ConfigSamples ==
    { ScenarioConfig,
      <<Num(0), Num(2147483647), Num(1), Num(255), Num(65536)>>,
      <<Num(-1), Num(-2147483647 - 1), Num(256), Num(65535), Num(16777216)>> }

NftSamples ==
    { <<Num(0), Num(4103500), Num(0)>>,
      <<Num(820700), Num(4103500), Num(1711447260)>> }

WalletSamples ==
    { <<48, 120, 67, 51, 70, 99>>,       \* "0xC3Fc"
      <<48, 120>>,                       \* "0x"
      <<48, 120, 233, 49>>,              \* "0x" followed by a non-ASCII character
      <<67, 51, 70, 99, 53, 56>>,        \* "C3Fc58": no marker
      <<48>>,                            \* "0"
      <<>>,
      bnbWallet }

TokenSamples ==
    { TokenRecordData(st, rev, del, Key32(3), role) :
        st \in {0, 1, 2, 200}, rev \in BOOLEAN, del \in BOOLEAN,
        role \in {0, 3, 5, 255} }

ScenarioTokenRecord == TokenRecordData(1, FALSE, TRUE, Key32(3), 3)

\* values of a 4-byte field between 0 and the largest 4-byte pattern
FieldValues ==
    { Num(0), Num(1), Num(3600), Num(2147483647),
      [hi |-> 32768, lo |-> 0], [hi |-> 65535, lo |-> 65535] }

ConfigArgSamples ==
    { [g \in 1..5 |-> IF g = f THEN v ELSE ScenarioConfig[g]] :
        f \in 1..5, v \in FieldValues }

PipeIdle ==
    /\ mints = <<>>
    /\ chunkSize = 1
    /\ i = 0
    /\ pc = "idle"
    /\ calls = <<>>
    /\ outcome = "pending"
    /\ rng = 1

InitDecode ==
    /\ entry = "decode"
    /\ wstr = <<>>
    /\ \/ \E vals \in ConfigSamples :
             /\ cfg = vals
             /\ \E d \in Cuts(ConfigRecordData(Key32(1), Key32(2), vals)) :
                   acct = Account(d)
       \/ /\ cfg = NoCfg
          /\ \/ acct = NoAccount
             \/ \E vals \in NftSamples : \E d \in Cuts(NftRecordData(vals)) :
                   acct = Account(d)
             \/ \E w \in WalletSamples :
                   \E d \in Cuts(ClaimRecordData(ClaimGeneration, ClaimAmount,
                                                 Key32(4), Utf8Encode(w))) :
                      acct = Account(d)
             \/ \E t \in TokenSamples : \E d \in Cuts(t) : acct = Account(d)

InitCodec ==
    /\ PipeIdle
    /\ OpsIdle
    /\ ix = NoIx
    /\ res = NoResult
    /\ \/ InitDecode
       \/ /\ entry = "setConfig"
          /\ acct = NoAccount
          /\ wstr = <<>>
          /\ cfg \in ConfigArgSamples
       \/ /\ entry = "createClaim"
          /\ acct = NoAccount
          /\ cfg = NoCfg
          /\ wstr \in WalletSamples

BuildSetConfig ==
    /\ entry = "setConfig"
    /\ ix = NoIx
    /\ res = NoResult
    /\ ix' = setConfigInstruction(wallet, creatorKey, cfg)
    /\ UNCHANGED <<acct, wstr, cfg, res>>
    /\ UNCHANGED <<pipeVars, opsVars>>

ChainSetConfig ==
    /\ entry = "setConfig"
    /\ ix.status = "built"
    /\ ~acct.exists
    /\ res = NoResult
    /\ acct' = Account(OnChainSetConfig(ix.instruction))
    /\ UNCHANGED <<wstr, cfg, ix, res>>
    /\ UNCHANGED <<pipeVars, opsVars>>

BuildCreateClaim ==
    /\ entry = "createClaim"
    /\ ix = NoIx
    /\ res = NoResult
    /\ ix' = Built(createClaimInstruction(wallet, wstr, RandomBytes(rng, 1)))
    /\ UNCHANGED <<acct, wstr, cfg, res>>
    /\ UNCHANGED <<pipeVars, opsVars>>

ChainCreateClaim ==
    /\ entry = "createClaim"
    /\ ix.status = "built"
    /\ ~acct.exists
    /\ res = NoResult
    /\ acct' = Account(OnChainCreateClaim(ix.instruction))
    /\ UNCHANGED <<wstr, cfg, ix, res>>
    /\ UNCHANGED <<pipeVars, opsVars>>

Decode(result) ==
    /\ res = NoResult
    /\ res' = result
    /\ UNCHANGED <<acct, wstr, cfg, ix>>
    /\ UNCHANGED <<pipeVars, opsVars>>

ParseTokenRecord == Decode(parseTokenRecord(acct))
ParseConfig == Decode(parseConfig(acct))
ParseNft == Decode(parseNft(acct))
ParseClaim == Decode(parseClaim(acct))

NextCodec ==
    \/ BuildSetConfig
    \/ ChainSetConfig
    \/ BuildCreateClaim
    \/ ChainCreateClaim
    \/ ParseTokenRecord
    \/ ParseConfig
    \/ ParseNft
    \/ ParseClaim

SpecCodec == InitCodec /\ [][NextCodec]_vars

(***************************************************************************)
(* transaction.ts: the other composite operations.  Each hands one         *)
(* instruction list to sendAndConfirmTransaction.                          *)
(***************************************************************************)
\* a delegateAndLock that puts each lock before the approvals
DelegateAndLockInstructionsLockFirst(userPayer, ms) ==
    [k \in 1..Len(ms) |-> lockInstruction(ms[k], userPayer, userPayer, userPayer)]
    \o [k \in 1..Len(ms) |->
            delegateApproveInstruction(ms[k], userPayer, userPayer, userPayer)]

DelegateAndLockInstructions(userPayer, ms) ==
    [k \in 1..Len(ms) |->
        delegateApproveInstruction(ms[k], userPayer, userPayer, userPayer)]
    \o [k \in 1..Len(ms) |-> lockInstruction(ms[k], userPayer, userPayer, userPayer)]

RevokeAndUnlockInstructions(userPayer, ms) ==
    [k \in 1..Len(ms) |-> unlockInstruction(ms[k], userPayer, userPayer, userPayer)]
    \o [k \in 1..Len(ms) |->
            delegateRevokeInstruction(ms[k], userPayer, userPayer, userPayer)]

\* the call record of a composite operation other than claimReward
OpCall(ms, instructions) ==
    [chunk |-> ms, seed |-> <<>>]
        @@ SendAndConfirmStart(<<wallet>>, wallet, instructions)

DeleteAccount(authPayer, acc) ==
    OpCall(<<>>, <<deleteAccountInstruction(authPayer, acc)>>)

RegisterNft(authPayer, mint) ==
    OpCall(<<mint>>, <<registerNftInstruction(authPayer, mint)>>)

DelegateAndLock(userPayer, ms) ==
    OpCall(ms, DelegateAndLockInstructions(userPayer, ms))

RevokeAndUnlock(userPayer, ms) ==
    OpCall(ms, RevokeAndUnlockInstructions(userPayer, ms))

\* index.ts ensureConfigSet: the default configuration; claimable_from is
\* the wall clock in seconds, truncated by writeInt32LE
DefaultConfig ==
    <<Num(1762300800), Num(64000), Num(16000), Num(90000), Num(300)>>

\* an operation whose synchronous part is its whole body up to the await of
\* sendAndConfirmTransaction
Submit(call) ==
    /\ pc = "call"
    /\ calls' = <<call>>
    /\ pc' = "await"
    /\ UNCHANGED <<entry, mints, chunkSize, i, outcome, rng>>
    /\ UNCHANGED <<codecVars, opsVars>>

\* tx.setConfig: setConfigInstruction may throw before anything is sent
SetConfig ==
    /\ entry = "tx.setConfig"
    /\ pc = "call"
    /\ ix' = setConfigInstruction(wallet, creatorKey, cfg)
    /\ IF ix'.status = "built"
       THEN /\ calls' = <<OpCall(<<>>, <<ix'.instruction>>)>>
            /\ pc' = "await"
            /\ outcome' = outcome
       ELSE /\ calls' = calls
            /\ pc' = "done"
            /\ outcome' = "rejected"
    /\ UNCHANGED <<entry, mints, chunkSize, i, rng>>
    /\ UNCHANGED <<acct, wstr, cfg, res>>
    /\ UNCHANGED opsVars

DeleteAccountOp ==
    /\ entry = "tx.deleteAccount"
    /\ Submit(DeleteAccount(wallet, findNftPda(mints[1])[1]))

RegisterNftOp ==
    /\ entry = "tx.registerNft"
    /\ Submit(RegisterNft(wallet, mints[1]))

DelegateAndLockOp ==
    /\ entry = "tx.delegateAndLock"
    /\ Submit(DelegateAndLock(wallet, mints))

RevokeAndUnlockOp ==
    /\ entry = "tx.revokeAndUnlock"
    /\ Submit(RevokeAndUnlock(wallet, mints))

(***************************************************************************)
(* index.ts: ensureConfigSet and ensureNftRecord                           *)
(***************************************************************************)
\* getAccountInfo followed by the decoder: a failed request rejects the
\* promise like a missing account or a throwing decoder does
FetchAndParse(how, kind, account) ==
    IF how = "error" THEN Rejected(kind, "fetch failed")
    ELSE IF kind = "config" THEN parseConfig(account)
    ELSE parseNft(account)

\* parseConfig / parseNft settles
EnsureParse ==
    /\ entry \in {"ensureConfigSet", "ensureNftRecord"}
    /\ pc = "call"
    /\ res' = FetchAndParse(fetch,
                            IF entry = "ensureConfigSet" THEN "config" ELSE "nft",
                            acct)
    /\ pc' = "parsed"
    /\ UNCHANGED <<entry, mints, chunkSize, i, calls, outcome, rng>>
    /\ UNCHANGED <<acct, wstr, cfg, ix>>
    /\ UNCHANGED opsVars

\* .catch(_ => tx.setConfig(...)) / .catch(_ => tx.registerNft(...)): the
\* handler runs for every rejection, whatever its reason
EnsureCatch ==
    /\ entry \in {"ensureConfigSet", "ensureNftRecord"}
    /\ pc = "parsed"
    /\ res.status = "rejected"
    /\ calls' = IF entry = "ensureConfigSet"
                THEN <<OpCall(<<>>,
                        <<setConfigInstruction(wallet, wallet, cfg).instruction>>)>>
                ELSE <<RegisterNft(wallet, mints[1])>>
    /\ pc' = "await"
    /\ UNCHANGED <<entry, mints, chunkSize, i, outcome, rng>>
    /\ UNCHANGED <<codecVars, opsVars>>

\* the decoder resolved: nothing is sent
EnsureDone ==
    /\ entry \in {"ensureConfigSet", "ensureNftRecord"}
    /\ pc = "parsed"
    /\ res.status = "resolved"
    /\ pc' = "done"
    /\ outcome' = "resolved"
    /\ UNCHANGED <<entry, mints, chunkSize, i, calls, rng>>
    /\ UNCHANGED <<codecVars, opsVars>>

(***************************************************************************)
(* index.ts: printAllClaimRecords(since).  gen = since / d + k is kept as  *)
(* the exact fraction (since + k * d) / d.                                 *)
(***************************************************************************)
\* the memcmp filter of one query: writeInt32LE(gen) stores the truncated
\* value
GenerationFilter(gen) ==
    [dataSize |-> 80, offset |-> 0, bytes |-> Bs58Encode(Int32Bytes(Num(gen)))]

\* gen <= lastGen
ScanContinues(sc) == sc.since + sc.k * sc.d <= sc.now

\* parseConfig and getTime resolved: firstGen and lastGen are computed
ScanStart ==
    /\ entry = "printAllClaimRecords"
    /\ pc = "call"
    /\ pc' = "loop"
    /\ UNCHANGED <<entry, mints, chunkSize, i, calls, outcome, rng>>
    /\ UNCHANGED <<codecVars, opsVars>>

\* parseConfig or getTime rejected
ScanFails ==
    /\ entry = "printAllClaimRecords"
    /\ pc = "call"
    /\ pc' = "done"
    /\ outcome' = "rejected"
    /\ UNCHANGED <<entry, mints, chunkSize, i, calls, rng>>
    /\ UNCHANGED <<codecVars, opsVars>>

\* one iteration: the query for the generation gen is issued and awaited
ScanStep ==
    /\ entry = "printAllClaimRecords"
    /\ pc = "loop"
    /\ ScanContinues(scan)
    /\ scan' = [scan EXCEPT
                  !.queries = Append(@, GenerationFilter(
                                  (scan.since + scan.k * scan.d) \div scan.d)),
                  !.k = @ + 1]
    /\ UNCHANGED pipeVars
    /\ UNCHANGED <<codecVars, fetch, derived>>

\* the loop ends; no account matched, so there is nothing to decode
ScanExit ==
    /\ entry = "printAllClaimRecords"
    /\ pc = "loop"
    /\ ~ScanContinues(scan)
    /\ pc' = "done"
    /\ outcome' = "resolved"
    /\ UNCHANGED <<entry, mints, chunkSize, i, calls, rng>>
    /\ UNCHANGED <<codecVars, opsVars>>

(***************************************************************************)
(* pda.ts called repeatedly                                                *)
(***************************************************************************)
DeriveCalls ==
    {[name |-> n, args |-> <<MintKey(m)>>] :
        n \in {"metadata", "masterEdition", "nft"}, m \in 1..2}
    \cup {[name |-> "token", args |-> <<MintKey(m), w>>] :
            m \in 1..2, w \in {wallet, creatorKey}}
    \cup {[name |-> "tokenRecord",
           args |-> <<MintKey(m), findTokenAccountPda(MintKey(m), w)[1]>>] :
            m \in 1..2, w \in {wallet, creatorKey}}
    \cup {[name |-> "config", args |-> <<>>]}
    \cup {[name |-> "claim", args |-> <<w, RandomBytes(r, 1)>>] :
            w \in {wallet, creatorKey}, r \in 1..NumStreams}

DeriveResult(c) ==
    CASE c.name = "metadata" -> findMetadataAccountPda(c.args[1])
      [] c.name = "masterEdition" -> findMasterEditionAccountPda(c.args[1])
      [] c.name = "token" -> findTokenAccountPda(c.args[1], c.args[2])
      [] c.name = "tokenRecord" -> findTokenRecordPda(c.args[1], c.args[2])
      [] c.name = "config" -> findConfigPda
      [] c.name = "nft" -> findNftPda(c.args[1])
      [] c.name = "claim" -> findClaimPda(c.args[1], c.args[2])

Derive ==
    /\ entry = "derive"
    /\ Len(derived) < MaxDerive
    /\ \E c \in DeriveCalls :
          derived' = Append(derived, [call |-> c, result |-> DeriveResult(c)])
    /\ UNCHANGED pipeVars
    /\ UNCHANGED <<codecVars, fetch, scan>>

(***************************************************************************)
(* The operations of the client, each started once on its inputs           *)
(***************************************************************************)
MintList(m) == [k \in 1..m |-> MintKey(k)]

EnsureConfigAccounts ==
    LET data == ConfigRecordData(Key32(1), Key32(2), ScenarioConfig)
    IN  {NoAccount, Account(data), Account(Slice(data, 0, Len(data) - 1))}

EnsureNftAccounts ==
    LET data == NftRecordData(<<Num(820700), Num(4103500), Num(1711447260)>>)
    IN  {NoAccount, Account(data), Account(Slice(data, 0, Len(data) - 1))}

InitOps ==
    /\ entry \in {"tx.setConfig", "tx.deleteAccount", "tx.registerNft", "claim",
                  "tx.delegateAndLock", "tx.revokeAndUnlock",
                  "ensureConfigSet", "ensureNftRecord",
                  "printAllClaimRecords", "derive", "concurrentClaim"}
    /\ i = 0
    /\ calls = <<>>
    /\ outcome = "pending"
    /\ rng \in 1..NumStreams
    /\ wstr = <<>>
    /\ ix = NoIx
    /\ res = NoResult
    /\ derived = <<>>
    /\ pc = IF entry = "concurrentClaim" THEN "loop" ELSE "call"
    /\ IF entry \in {"claim", "tx.delegateAndLock", "tx.revokeAndUnlock",
                     "concurrentClaim"}
       THEN mints \in {MintList(m) : m \in 0..MaxMints}
       ELSE mints = MintList(1)
    /\ IF entry = "concurrentClaim"
       THEN chunkSize \in -1..MaxChunkSize
       ELSE chunkSize = 1
    /\ IF entry = "tx.setConfig" THEN cfg \in ConfigArgSamples
       ELSE IF entry = "ensureConfigSet" THEN cfg = DefaultConfig
       ELSE cfg = NoCfg
    /\ IF entry \in {"ensureConfigSet", "ensureNftRecord"}
       THEN /\ fetch \in {"ok", "error"}
            /\ acct \in (IF fetch = "error" THEN {NoAccount}
                         ELSE IF entry = "ensureConfigSet"
                         THEN EnsureConfigAccounts ELSE EnsureNftAccounts)
       ELSE fetch = "none" /\ acct = NoAccount
    /\ IF entry = "printAllClaimRecords"
       THEN \E since \in 0..MaxTime : \E now \in since..MaxTime :
              \E d \in 1..MaxDuration :
                scan = [since |-> since, now |-> now, d |-> d, k |-> 0,
                        queries |-> <<>>]
       ELSE scan = NoScan

NextOps ==
    \/ SetConfig
    \/ DeleteAccountOp
    \/ RegisterNftOp
    \/ StartClaim
    \/ DelegateAndLockOp
    \/ RevokeAndUnlockOp
    \/ EnsureParse
    \/ EnsureCatch
    \/ EnsureDone
    \/ ScanStart
    \/ ScanFails
    \/ ScanStep
    \/ ScanExit
    \/ Derive
    \/ LoopStep
    \/ LoopExit
    \/ Network

SpecOps == InitOps /\ [][NextOps]_vars

(***************************************************************************)
(* Properties of the claim transaction and of the pipeline                 *)
(***************************************************************************)
CeilDiv(a, b) == (a + b - 1) \div b

IsPrefix(s, t) == Len(s) <= Len(t) /\ s = SubSeq(t, 1, Len(s))

PipelineSteps ==
    <<"getLatestBlockhash", "compile", "sign", "serialize",
      "sendTransaction", "confirmTransaction">>

Logged(c, what) == \E k \in 1..Len(c.log) : c.log[k] = what

\* the chunk's transaction did not take effect
Failed(c) == c.step = "rejected" \/ (c.step = "resolved" /\ c.err # "null")

\* the shape of one claimReward instruction list for the mints ms
ClaimSequenceShape(c) ==
    LET ins == c.instructions
        n == Len(c.chunk)
    IN  /\ Len(ins) = 1 + 2 * n
        /\ ins[1].data[1] = IX_CREATE_CLAIM
        /\ SubSeq(ins[1].data, 3, 2 + NONCE_LEN) = c.seed
        /\ ins[1].keys[2].pubkey = findClaimPda(wallet, c.seed)[1]
        /\ \A k \in 1..n :
              /\ ins[1 + k].data = <<IX_NFT>>
              /\ ins[1 + k].keys[2].pubkey = c.chunk[k]
        /\ \A k \in 1..n :
              /\ ins[1 + n + k].data[1] = IX_CLAIM
              /\ ins[1 + n + k].keys[4].pubkey = findNftPda(c.chunk[k])[1]
              /\ ins[1 + n + k].keys[5].pubkey = ins[1].keys[2].pubkey

\* C1: every instruction list built by claimReward for N mints is one
\* create-claim, then N register-stake-record in the mints' order, then N
\* execute-claim in the mints' order; the one nonce of the call is the one in
\* the create-claim payload, and every execute-claim names at account index 4
\* the claim address the create-claim names at account index 1.
C1_ClaimSequence == \A k \in 1..Len(calls) : ClaimSequenceShape(calls[k])

C1_Witness ==
    \E k \in 1..Len(calls) :
        /\ Len(calls[k].chunk) >= 3
        /\ Len(calls[k].instructions) = 1 + 2 * Len(calls[k].chunk)

\* C2: once the loop of concurrentClaim has ended, the chunks are
\* ceil(M/c) many, all but the last of c mints, the last of 1..c mints, their
\* concatenation is the mints list, and there is one claim transaction per
\* chunk, built for exactly that chunk.
C2_Chunking ==
    (entry = "concurrentClaim" /\ pc = "await") =>
        LET n == Len(calls)
        IN  /\ n = CeilDiv(Len(mints), chunkSize)
            /\ \A k \in 1..n :
                  /\ k < n => Len(calls[k].chunk) = chunkSize
                  /\ Len(calls[k].chunk) >= 1
                  /\ Len(calls[k].chunk) <= chunkSize
                  /\ Len(calls[k].instructions) = 1 + 2 * Len(calls[k].chunk)
                  /\ \A j \in 1..Len(calls[k].chunk) :
                        calls[k].instructions[1 + j].keys[2].pubkey
                            = calls[k].chunk[j]
            /\ Concat([k \in 1..n |-> calls[k].chunk]) = mints

C2_Witness ==
    /\ entry = "concurrentClaim"
    /\ pc = "await"
    /\ Len(mints) = 9
    /\ chunkSize = 4
    /\ [k \in 1..Len(calls) |-> Len(calls[k].chunk)] = <<4, 4, 1>>

\* C3: after the loop every chunk has its own started claim transaction,
\* whatever happened to the others, and concurrentClaim's promise is
\* rejected as soon as at least one chunk has failed.
C3_IndependentChunks ==
    (entry = "concurrentClaim" /\ pc = "await") =>
        /\ Len(calls) = CeilDiv(Len(mints), chunkSize)
        /\ \A k \in 1..Len(calls) : Logged(calls[k], "getLatestBlockhash")
        /\ \A j, k \in 1..Len(calls) : j # k => calls[j].seed # calls[k].seed
        /\ (\E k \in 1..Len(calls) : Failed(calls[k])) => outcome = "rejected"

\* C4: in every call the steps are a prefix of fetch, compile, sign,
\* serialize, submit, confirm (so ordered and at most once each); a signed
\* transaction carries the token fetched by this very call; confirmation is
\* awaited for the signature submit returned and with that same token.
C4_PipelineOrder ==
    \A k \in 1..Len(calls) :
        LET c == calls[k]
        IN  /\ IsPrefix(c.log, PipelineSteps)
            /\ Logged(c, "sign") =>
                  /\ c.blockhash # NoBlockhash
                  /\ c.tx.recentBlockhash = c.blockhash.blockhash
            /\ Logged(c, "confirmTransaction") =>
                  /\ c.signature = SignatureOf(c.tx, c.instructions)
                  /\ c.confirm.signature = c.signature
                  /\ c.confirm.blockhash = c.tx.recentBlockhash
                  /\ c.confirm.lastValidBlockHeight
                        = c.blockhash.lastValidBlockHeight

C4_Witness ==
    \E k \in 1..Len(calls) :
        /\ calls[k].step = "resolved"
        /\ calls[k].log = PipelineSteps
        /\ calls[k].confirm.blockhash = 2

\* C5: whenever the fetch, the submit or the confirmation of a transaction
\* fails, or the confirmation reports the transaction failed, the claim
\* promise and the driver operation end rejected, and no step follows a
\* failed step.
C5_NoSwallowedFailure ==
    \A k \in 1..Len(calls) :
        LET c == calls[k]
        IN  /\ Failed(c) => (ClaimPromise(c) = "rejected" /\ outcome = "rejected")
            /\ c.failedAt = "getLatestBlockhash" => c.log = <<"getLatestBlockhash">>
            /\ c.failedAt = "sendTransaction" => ~Logged(c, "confirmTransaction")

(***************************************************************************)
(* Properties of the record codec                                          *)
(***************************************************************************)
ToByte(v) == (v + 256) % 256

\* the buffer ends before a field parseTokenRecord has to read
TokenRecordTooShort(data) ==
    \/ Len(data) < 4
    \/ LET p == IF data[4] = 0 THEN 4 ELSE 12
       IN  \/ Len(data) < p + 1
           \/ data[p + 1] # 0 /\ Len(data) < p + 35

\* C6: a buffer shorter than the record kind needs is rejected by that
\* kind's decoder: fewer than 84 bytes for a ConfigRecord, fewer than 12 for
\* an NftRecord, fewer than 40 for a ClaimRecord, and a TokenDelegationRecord
\* that ends before a field the decoder reads.
C6_ShortBufferRejected ==
    (res.status # "none" /\ acct.exists) =>
        /\ (res.kind = "config" /\ Len(acct.data) < 84) => res.status = "rejected"
        /\ (res.kind = "nft" /\ Len(acct.data) < 12) => res.status = "rejected"
        /\ (res.kind = "claim" /\ Len(acct.data) < 40) => res.status = "rejected"
        /\ (res.kind = "tokenRecord" /\ TokenRecordTooShort(acct.data))
              => res.status = "rejected"

C6_Witness ==
    /\ res.status = "rejected"
    /\ res.kind = "config"
    /\ acct.exists
    /\ Len(acct.data) = 83

\* C7: the wallet string given to create-claim is the one decoded from the
\* claim record: the payload is opcode, bump, nonce and the characters after
\* the "0x" marker, and decoding returns the original string.
C7_WalletRoundTrip ==
    /\ (entry = "createClaim" /\ ix.status = "built") =>
          LET data == ix.instruction.data
          IN  /\ data[1] = IX_CREATE_CLAIM
              /\ SubSeq(data, 3, 2 + NONCE_LEN) = RandomBytes(rng, 1)
              /\ <<48, 120>> \o Utf8Decode(SubSeq(data, 3 + NONCE_LEN, Len(data)))
                    = wstr
    /\ (entry = "createClaim" /\ res.status = "resolved" /\ res.kind = "claim")
          => res.rec.bnb_chain_wallet_address = wstr

\* C8: a value between 0 and the largest 4-byte value written by
\* setConfigInstruction is written without an error and read back unchanged
\* by parseConfig.
C8_NumericRoundTrip ==
    /\ (entry = "setConfig" /\ ix.status # "none") => ix.status = "built"
    /\ (entry = "setConfig" /\ res.status = "resolved" /\ res.kind = "config") =>
          /\ res.rec.claimable_from = cfg[1]
          /\ res.rec.accumulated_reward = cfg[2]
          /\ res.rec.initial_reward = cfg[3]
          /\ res.rec.accumulation_duration = cfg[4]
          /\ res.rec.generation_duration = cfg[5]

\* C9: a ConfigRecord laid out as authority 0..31, creator 32..63 and the
\* five values little-endian at 64, 68, 72, 76, 80 decodes to that
\* authority, that creator and those five values; the 84-byte buffer of
\* 1711447200, 3282800, 820700, 25920000, 3600 decodes to exactly these.
C9_ConfigLayout ==
    (entry = "decode" /\ res.status = "resolved" /\ res.kind = "config"
        /\ Len(acct.data) >= 84
        /\ SubSeq(acct.data, 1, 84) = ConfigRecordData(Key32(1), Key32(2), cfg)) =>
            /\ res.rec.authority.key = Key32(1)
            /\ res.rec.creator.key = Key32(2)
            /\ res.rec.claimable_from = cfg[1]
            /\ res.rec.accumulated_reward = cfg[2]
            /\ res.rec.initial_reward = cfg[3]
            /\ res.rec.accumulation_duration = cfg[4]
            /\ res.rec.generation_duration = cfg[5]
            /\ cfg = ScenarioConfig =>
                  /\ res.rec.claimable_from = Num(1711447200)
                  /\ res.rec.accumulated_reward = Num(3282800)
                  /\ res.rec.initial_reward = Num(820700)
                  /\ res.rec.accumulation_duration = Num(25920000)
                  /\ res.rec.generation_duration = Num(3600)

C9_Witness ==
    /\ entry = "decode"
    /\ res.status = "resolved"
    /\ res.kind = "config"
    /\ acct.data = ConfigRecordData(Key32(1), Key32(2), ScenarioConfig)
    /\ Len(acct.data) = 84
    /\ res.rec.claimable_from = Num(1711447200)
    /\ res.rec.generation_duration = Num(3600)

\* C10: a decoded TokenDelegationRecord has the state byte of offset 2; with
\* p = 4 when the byte at offset 3 is zero and p = 12 otherwise, delegate and
\* delegateRole are null when the byte at p is zero, and otherwise delegate
\* is the 32 bytes p+1..p+32 and delegateRole the byte at p+34.  The buffer
\* with state 1, no revision, a delegate and role byte 3 decodes to state 1
\* (Locked), that delegate and role 3 (Staking).
C10_TokenRecordLayout ==
    (res.status = "resolved" /\ res.kind = "tokenRecord") =>
        LET data == acct.data
            p == IF data[4] = 0 THEN 4 ELSE 12
            rec == res.rec
        IN  /\ ToByte(rec.state) = data[3]
            /\ data[p + 1] = 0 =>
                  (rec.delegate.isNull /\ rec.delegateRole.isNull)
            /\ data[p + 1] # 0 =>
                  /\ ~rec.delegate.isNull
                  /\ rec.delegate.str = Bs58Encode(SubSeq(data, p + 2, p + 33))
                  /\ ~rec.delegateRole.isNull
                  /\ ToByte(rec.delegateRole.value) = data[p + 35]
            /\ data = ScenarioTokenRecord =>
                  /\ rec.state = 1
                  /\ rec.delegate = [isNull |-> FALSE, str |-> Bs58Encode(Key32(3))]
                  /\ rec.delegateRole = [isNull |-> FALSE, value |-> 3]

C10_Witness ==
    /\ res.status = "resolved"
    /\ res.kind = "tokenRecord"
    /\ acct.data = ScenarioTokenRecord
    /\ res.rec.state = 1
    /\ res.rec.delegateRole.value = 3

(***************************************************************************)
(* Properties of the instruction builders and the composite operations     *)
(***************************************************************************)
\* the instructions of call c at positions from..to all satisfy P
OpcodeAt(c, from, to, opcode) ==
    \A k \in from..to : c.instructions[k].data[1] = opcode

SubTypeAt(c, from, to, subtype) ==
    \A k \in from..to : c.instructions[k].data[2] = subtype

\* C11: the first payload byte of every built instruction is the fixed
\* opcode of its builder: set-config 0, delete-account 1,
\* register-stake-record 2, create-claim 3, execute-claim 4, delegate-approve
\* 44, delegate-revoke 45, lock 46, unlock 47; the second payload byte of
\* delegate-approve and delegate-revoke is the staking sub-type 5.
C11_Opcodes ==
    \A c \in 1..Len(calls) :
        LET call == calls[c]
            n == Len(call.chunk)
        IN  /\ entry \in {"tx.setConfig", "ensureConfigSet"} =>
                  OpcodeAt(call, 1, 1, 0)
            /\ entry = "tx.deleteAccount" => OpcodeAt(call, 1, 1, 1)
            /\ entry \in {"tx.registerNft", "ensureNftRecord"} =>
                  OpcodeAt(call, 1, 1, 2)
            /\ entry \in {"claim", "concurrentClaim"} =>
                  /\ OpcodeAt(call, 1, 1, 3)
                  /\ OpcodeAt(call, 2, n + 1, 2)
                  /\ OpcodeAt(call, n + 2, 2 * n + 1, 4)
            /\ entry = "tx.delegateAndLock" =>
                  /\ OpcodeAt(call, 1, n, 44)
                  /\ SubTypeAt(call, 1, n, 5)
                  /\ OpcodeAt(call, n + 1, 2 * n, 46)
            /\ entry = "tx.revokeAndUnlock" =>
                  /\ OpcodeAt(call, 1, n, 47)
                  /\ OpcodeAt(call, n + 1, 2 * n, 45)
                  /\ SubTypeAt(call, n + 1, 2 * n, 5)

C11_Witness ==
    /\ entry = "tx.delegateAndLock"
    /\ Len(calls) = 1
    /\ Len(calls[1].chunk) >= 1
    /\ Len(calls[1].instructions) = 2 * Len(calls[1].chunk)
    /\ calls[1].instructions[1].data[1] = 44
    /\ calls[1].instructions[Len(calls[1].instructions)].data[1] = 46

\* the entry that stands for an omitted account: the token-metadata program
\* id, neither signer nor writable
IsPlaceholder(key) ==
    /\ key.pubkey = <<0, 3>>
    /\ ~key.isSigner
    /\ ~key.isWritable

\* C12: in every delegate-approve, delegate-revoke, lock and unlock
\* instruction the omitted optional accounts are the placeholder entry
\* (token-metadata program id, non-signer, non-writable): account positions
\* 0, 12 and 13 of delegate-approve and delegate-revoke, positions 1, 11 and
\* 12 of lock and unlock (here counted from 1); no placeholder entry is
\* signer or writable.
C12_Placeholders ==
    \A c \in 1..Len(calls) : \A k \in 1..Len(calls[c].instructions) :
        LET instruction == calls[c].instructions[k]
            keys == instruction.keys
        IN  instruction.programId = MPL_TOKEN_METADATA =>
              /\ instruction.data[1] \in {44, 45} =>
                    /\ Len(keys) = 14
                    /\ \A pos \in {1, 13, 14} : IsPlaceholder(keys[pos])
              /\ instruction.data[1] \in {46, 47} =>
                    /\ Len(keys) = 13
                    /\ \A pos \in {2, 12, 13} : IsPlaceholder(keys[pos])

C12_Witness ==
    /\ entry = "tx.revokeAndUnlock"
    /\ Len(calls) = 1
    /\ Len(calls[1].instructions) >= 2
    /\ calls[1].instructions[1].data[1] = 47
    /\ IsPlaceholder(calls[1].instructions[1].keys[2])
    /\ calls[1].instructions[Len(calls[1].instructions)].data[1] = 45
    /\ IsPlaceholder(calls[1].instructions[Len(calls[1].instructions)].keys[14])

Submitted(c) == Logged(c, "sendTransaction")

\* C14: ensureConfigSet submits a set-config transaction, and
\* ensureNftRecord a register-stake-record transaction, only when the
\* account does not exist on chain; when the account exists but cannot be
\* decoded, or the fetch fails, the error reaches the caller and no
\* transaction is submitted.
C14_CreateOnlyWhenMissing ==
    entry \in {"ensureConfigSet", "ensureNftRecord"} =>
        /\ (\E k \in 1..Len(calls) : Submitted(calls[k])) =>
              (fetch = "ok" /\ ~acct.exists)
        /\ (pc \in {"await", "done"} /\ res.status = "rejected"
                /\ res.error # "Uninitialized account") =>
              (calls = <<>> /\ outcome = "rejected")

\* C15: every transaction assembled and submitted by setConfig,
\* deleteAccount, registerNft, claimReward, delegateAndLock and
\* revokeAndUnlock carries at least one instruction, for every input, an
\* empty list of mints included.
C15_NonEmptyInstructions ==
    \A k \in 1..Len(calls) :
        Submitted(calls[k]) => Len(calls[k].instructions) >= 1

IsPositive(v) == v.hi > 0 \/ (v.hi = 0 /\ v.lo > 0)

\* C16: no set-config instruction is built with, and no ConfigRecord is
\* decoded with, a generation duration or accumulation duration that is zero
\* or negative.
C16_PositiveDurations ==
    /\ (entry = "setConfig" /\ ix.status = "built") =>
          /\ IsPositive(ReadInt32LE(ix.instruction.data, 13))
          /\ IsPositive(ReadInt32LE(ix.instruction.data, 17))
    /\ (res.status = "resolved" /\ res.kind = "config") =>
          /\ IsPositive(res.rec.accumulation_duration)
          /\ IsPositive(res.rec.generation_duration)

\* C17: for since <= now and generation duration d > 0, printAllClaimRecords
\* issues exactly one query per generation g with
\* floor(since / d) <= g <= floor(now / d), in increasing order, each
\* filtered on the four little-endian bytes of g at offset 0; none is
\* skipped, the last included, and none is queried twice.
C17_EveryGenerationQueried ==
    (entry = "printAllClaimRecords" /\ pc = "done" /\ outcome = "resolved") =>
        LET first == scan.since \div scan.d
            last == scan.now \div scan.d
        IN  /\ Len(scan.queries) = last - first + 1
            /\ \A q \in 1..Len(scan.queries) :
                  /\ scan.queries[q].offset = 0
                  /\ ReadInt32LE(scan.queries[q].bytes.bs58, 0)
                        = Num(first + q - 1)

\* instruction ins is the one of the given opcode for the given mint; the
\* mint is account 5 of delegate-approve and delegate-revoke and account 3
\* of lock and unlock
IsMplInstructionFor(ins, opcode, mint) ==
    /\ ins.programId = MPL_TOKEN_METADATA
    /\ ins.data[1] = opcode
    /\ ins.keys[IF opcode \in {44, 45} THEN 6 ELSE 4].pubkey = mint

\* C18: delegateAndLock places the delegate-approve instructions, in the
\* mints' order, before the lock instructions, in the mints' order;
\* revokeAndUnlock places the unlock instructions before the delegate-revoke
\* instructions; every mint gets exactly one instruction of each kind.
C18_LockOrdering ==
    \A c \in 1..Len(calls) :
        LET ins == calls[c].instructions
            ms == calls[c].chunk
            n == Len(ms)
        IN  /\ entry = "tx.delegateAndLock" =>
                  /\ Len(ins) = 2 * n
                  /\ \A k \in 1..n :
                        /\ IsMplInstructionFor(ins[k], 44, ms[k])
                        /\ IsMplInstructionFor(ins[n + k], 46, ms[k])
            /\ entry = "tx.revokeAndUnlock" =>
                  /\ Len(ins) = 2 * n
                  /\ \A k \in 1..n :
                        /\ IsMplInstructionFor(ins[k], 47, ms[k])
                        /\ IsMplInstructionFor(ins[n + k], 45, ms[k])

C18_Witness ==
    /\ entry = "tx.delegateAndLock"
    /\ Len(calls) = 1
    /\ Len(mints) >= 2
    /\ calls[1].chunk = mints
    /\ IsMplInstructionFor(calls[1].instructions[2], 44, mints[2])
    /\ IsMplInstructionFor(calls[1].instructions[Len(mints) + 1], 46, mints[1])
    /\ Submitted(calls[1])

\* C19: concurrentClaim terminates for every list of mints and every chunk
\* size, zero and negative sizes included: every iteration of the chunking
\* loop moves the loop index forward, so the index reaches the end of the
\* list after finitely many iterations.
C19_LoopAdvances == [][LoopStep => i' > i]_vars

\* C20: a TokenDelegationRecord with a delegate and a role byte of the
\* enumeration (Sale 0, Transfer 1, Utility 2, Staking 3, Standard 4,
\* LockedTransfer 5, Migration 255) decodes to a delegateRole equal to that
\* member's value; every state byte and role byte 0..255 is decoded as the
\* unsigned value that was stored.
C20_UnsignedBytes ==
    (res.status = "resolved" /\ res.kind = "tokenRecord") =>
        LET data == acct.data
            p == IF data[4] = 0 THEN 4 ELSE 12
        IN  /\ res.rec.state = data[3]
            /\ data[p + 1] # 0 => res.rec.delegateRole.value = data[p + 35]

\* C21: in every create-claim instruction the payload is opcode 3, the bump,
\* the 32 nonce bytes in order and the wallet characters, where the bump and
\* the address at account index 1 are the pair derived from the signer
\* wallet at account index 0 and the nonce carried in the payload; in every
\* execute-claim instruction the payload is opcode 4, token bump,
\* token-record bump, stake-record bump, each bump derived together with the
\* address at account index 1, 2 and 3 (here counted from 1: accounts 2, 3
\* and 4).
C21_PayloadAccountsConsistent ==
    entry \in {"claim", "concurrentClaim"} =>
        \A c \in 1..Len(calls) :
            LET ins == calls[c].instructions
                ms == calls[c].chunk
                n == Len(ms)
                create == ins[1]
                nonce == SubSeq(create.data, 3, 34)
                claimPda == FindProgramAddressSync(
                                <<<<99, 108, 97, 105, 109>>,
                                  create.keys[1].pubkey, nonce>>, GAIMIN_PFP)
            IN  /\ create.data[1] = 3
                /\ nonce = calls[c].seed
                /\ Len(nonce) = 32
                /\ SubSeq(create.data, 35, Len(create.data))
                      = SubSeq(bnbWallet, 3, Len(bnbWallet))
                /\ create.keys[1] = Key(wallet, TRUE, FALSE)
                /\ create.keys[2].pubkey = claimPda[1]
                /\ create.data[2] = claimPda[2]
                /\ \A k \in 1..n :
                      LET exe == ins[n + 1 + k]
                          tok == findTokenAccountPda(ms[k], exe.keys[1].pubkey)
                          tokrec == findTokenRecordPda(ms[k], exe.keys[2].pubkey)
                          nft == findNftPda(ms[k])
                      IN  /\ Len(exe.data) = 4
                          /\ exe.data[1] = 4
                          /\ exe.keys[1] = Key(wallet, TRUE, FALSE)
                          /\ exe.keys[2].pubkey = tok[1]
                          /\ exe.data[2] = tok[2]
                          /\ exe.keys[3].pubkey = tokrec[1]
                          /\ exe.data[3] = tokrec[2]
                          /\ exe.keys[4].pubkey = nft[1]
                          /\ exe.data[4] = nft[2]

C21_Witness ==
    /\ entry = "concurrentClaim"
    /\ Len(calls) >= 2
    /\ Len(calls[2].chunk) = 1
    /\ Len(calls[2].instructions) = 3
    /\ calls[2].instructions[1].data[2]
          = findClaimPda(wallet, calls[2].seed)[2]
    /\ calls[2].instructions[3].data[1] = 4
    /\ calls[2].instructions[3].keys[4].pubkey = findNftPda(mints[2])[1]
    /\ Submitted(calls[2])

====
